---- MODULE Spec2Model ----
(***************************************************************************)
(* Provenance and invalidation metadata of instance snapshots              *)
(* (src/snapshot/metadata.rs): InstanceMetadata and its builder,           *)
(* InstanceContext and its reference-counted rule storage,                 *)
(* InstigatingSource with its conversions and Debug rendering, and the     *)
(* serde representation of the three.                                      *)
(*                                                                         *)
(* Values are records.  An Arc<Vec<IgnoreGlob>> is an index into `heap`,   *)
(* a sequence of storage cells [data, strong]; a cell whose strong count   *)
(* reached 0 is freed.  A text (a path, a string) is a sequence of tokens, *)
(* the separators "/" and "\\" being tokens of their own.                  *)
(***************************************************************************)
EXTENDS Integers, Sequences, FiniteSets, TLC

VARIABLES
    heap,   \* the Arc storage cells allocated so far
    meta,   \* the InstanceMetadata bindings: slot -> value or Moved
    ctx,    \* the InstanceContext bindings: slot -> value or Moved
    hist,   \* the builder calls applied to meta["m"] since its construction
    mark,   \* Len(hist) when meta["m0"] was copied from meta["m"], else -1
    root,   \* holder -> the storage cell of the context it was copied from
    orig,   \* storage cell -> the rules it was allocated with
    wire,   \* the serialized form of meta["m"], or Nothing
    out     \* the Debug rendering of the source of meta["m"], or Nothing

vars == <<heap, meta, ctx, hist, mark, root, orig, wire, out>>

----------------------------------------------------------------------------
\* Bounds of the model.

\* builder calls applied to one value
MaxSteps == 3
\* storage cells allocated in the sharing specification
MaxArcs == 3
\* tokens of a path drawn as input of serialization and rendering
MaxPathLen == 4

----------------------------------------------------------------------------
\* Values.

MetaSlots == {"m", "t", "m0"}
CtxSlots == {"c0", "c1", "c2"}

Moved == [tag |-> "Moved"]
Nothing == [tag |-> "Nothing"]

None == [tag |-> "None"]
Some(v) == [tag |-> "Some", value |-> v]

\* enum InstigatingSource
Path(path) == [tag |-> "Path", path |-> path]
ProjectNode(name, node) == [tag |-> "ProjectNode", name |-> name, node |-> node]

FooLua == <<"/", "proj", "/", "foo.lua">>
FooMeta == <<"/", "proj", "/", "foo.meta.json">>

\* crate::project::ProjectNode values, opaque to this file
ProjectNodes == {[class_name |-> "Folder"], [class_name |-> "Model"]}

\* struct IgnoreGlob
G1 == [base_path |-> <<"/", "proj">>, glob |-> "*.spec.lua"]
G2 == [base_path |-> <<"/", "proj", "/", "sub">>, glob |-> "*.tmp"]
Globs == {G1, G2}

----------------------------------------------------------------------------
\* Arc<Vec<IgnoreGlob>>: allocation, clone, drop, dereference.

ArcNew(h, data) == Append(h, [data |-> data, strong |-> 1])

ArcClone(h, a) == [h EXCEPT ![a].strong = @ + 1]

ArcDrop(h, a) ==
    IF h[a].strong = 1
    THEN [h EXCEPT ![a] = [data |-> <<>>, strong |-> 0]]
    ELSE [h EXCEPT ![a].strong = @ - 1]

Deref(h, a) == h[a].data

----------------------------------------------------------------------------
\* InstanceContext.

\* impl Default for InstanceContext
InstanceContextDefault(h) ==
    [value |-> [ignore_paths |-> Len(h) + 1], heap |-> ArcNew(h, <<>>)]

\* a clone that copies the rule sequence into storage of its own
InstanceContextCloneDeep(c, h) ==
    [value |-> [ignore_paths |-> Len(h) + 1],
     heap |-> ArcNew(h, Deref(h, c.ignore_paths))]

\* derive(Clone) for InstanceContext: Arc::clone of its one field
InstanceContextClone(c, h) ==
    [value |-> [ignore_paths |-> c.ignore_paths],
     heap |-> ArcClone(h, c.ignore_paths)]

\* Drop of an InstanceContext
InstanceContextDrop(c, h) == ArcDrop(h, c.ignore_paths)

\* an equality that compares the storage pointers
InstanceContextEqPtr(a, b, h) == a.ignore_paths = b.ignore_paths

\* derive(PartialEq) for InstanceContext: Arc<T> compares the values behind it
InstanceContextEq(a, b, h) == Deref(h, a.ignore_paths) = Deref(h, b.ignore_paths)

----------------------------------------------------------------------------
\* InstigatingSource conversions.

\* impl From<PathBuf> for InstigatingSource
FromPathBuf(path) == Path(path)

\* impl From<&Path> for InstigatingSource: to_owned copies the path
FromPath(path) == Path([i \in 1..Len(path) |-> path[i]])

\* the argument of instigating_source: impl Into<InstigatingSource>
Into(arg) ==
    CASE arg.via = "PathBuf" -> FromPathBuf(arg.path)
      [] arg.via = "&Path" -> FromPath(arg.path)
      [] arg.via = "InstigatingSource" -> arg.source

----------------------------------------------------------------------------
\* InstanceMetadata.

\* a constructor that starts with the flag set
newFlagSet(h) ==
    LET c == InstanceContextDefault(h)
    IN [value |-> [ignore_unknown_instances |-> TRUE,
                   instigating_source |-> None,
                   relevant_paths |-> <<>>,
                   context |-> c.value],
        heap |-> c.heap]

\* InstanceMetadata::new
new(h) ==
    LET c == InstanceContextDefault(h)
    IN [value |-> [ignore_unknown_instances |-> FALSE,
                   instigating_source |-> None,
                   relevant_paths |-> <<>>,
                   context |-> c.value],
        heap |-> c.heap]

\* impl Default for InstanceMetadata
default(h) == new(h)

\* a flag step that rebuilds the rest from scratch instead of from self
ignore_unknown_instancesReset(self, flag) ==
    [self EXCEPT !.ignore_unknown_instances = flag,
                 !.instigating_source = None,
                 !.relevant_paths = <<>>]

\* InstanceMetadata::ignore_unknown_instances
ignore_unknown_instances(self, flag) ==
    [self EXCEPT !.ignore_unknown_instances = flag]

\* a source step that keeps a source already set
instigating_sourceKeep(self, arg) ==
    IF self.instigating_source = None
    THEN [self EXCEPT !.instigating_source = Some(Into(arg))]
    ELSE self

\* InstanceMetadata::instigating_source
instigating_source(self, arg) ==
    [self EXCEPT !.instigating_source = Some(Into(arg))]

\* input.into_iter().map(|value| value.into()).collect()
RECURSIVE Collect(_)
Collect(input) ==
    IF input = <<>> THEN <<>>
    ELSE <<Head(input)>> \o Collect(Tail(input))

\* a collect that skips a path already collected
RECURSIVE CollectDedup(_, _)
CollectDedup(input, seen) ==
    IF input = <<>> THEN <<>>
    ELSE IF Head(input) \in seen THEN CollectDedup(Tail(input), seen)
    ELSE <<Head(input)>> \o CollectDedup(Tail(input), seen \cup {Head(input)})

\* a paths step that drops repeated paths
relevant_pathsDedup(self, input) ==
    [self EXCEPT !.relevant_paths = CollectDedup(input, {})]

\* a paths step that appends to the paths already held
relevant_pathsAppend(self, input) ==
    [self EXCEPT !.relevant_paths = @ \o Collect(input)]

\* InstanceMetadata::relevant_paths
relevant_paths(self, input) ==
    [self EXCEPT !.relevant_paths = Collect(input)]

\* a context step that keeps the context of self
contextKeep(self, c, h) == [value |-> self, heap |-> h]

\* InstanceMetadata::context: context.clone() is evaluated, the other fields
\* move out of self, and the context self held is dropped
context(self, c, h) ==
    LET cl == InstanceContextClone(c, h)
    IN [value |-> [self EXCEPT !.context = cl.value],
        heap |-> InstanceContextDrop(self.context, cl.heap)]

\* derive(Clone) for InstanceMetadata
InstanceMetadataClone(self, h) ==
    LET cl == InstanceContextClone(self.context, h)
    IN [value |-> [self EXCEPT !.context = cl.value], heap |-> cl.heap]

\* Drop of an InstanceMetadata
InstanceMetadataDrop(self, h) == InstanceContextDrop(self.context, h)

\* derive(PartialEq) for InstanceMetadata: field by field
InstanceMetadataEq(a, b, h) ==
    /\ a.ignore_unknown_instances = b.ignore_unknown_instances
    /\ a.instigating_source = b.instigating_source
    /\ a.relevant_paths = b.relevant_paths
    /\ InstanceContextEq(a.context, b.context, h)

----------------------------------------------------------------------------
\* The builder specification: meta["m"] is constructed and taken through
\* builder calls; meta["t"] is constructed independently and taken through
\* the same calls (a re-derivation); meta["m0"] is a copy of meta["m"] taken
\* before some call.

FlagArgs == BOOLEAN

SourceArgs ==
    {[via |-> "PathBuf", path |-> FooLua],
     [via |-> "&Path", path |-> FooMeta],
     [via |-> "InstigatingSource",
      source |-> ProjectNode("Part", [class_name |-> "Folder"])]}

PathsArgs ==
    {<<>>, <<FooLua, FooMeta>>, <<FooMeta, FooLua>>, <<FooLua, FooLua>>}

\* the contexts of the enclosing scopes: a default one, and two built
\* separately from the same rule
ScopeHeap ==
    <<[data |-> <<>>, strong |-> 1],
      [data |-> <<G1>>, strong |-> 1],
      [data |-> <<G1>>, strong |-> 1]>>

ScopeCtx ==
    [c \in CtxSlots |->
        CASE c = "c0" -> [ignore_paths |-> 1]
          [] c = "c1" -> [ignore_paths |-> 2]
          [] c = "c2" -> [ignore_paths |-> 3]]

Holders == CtxSlots \cup MetaSlots

Init ==
    /\ heap = ScopeHeap
    /\ meta = [s \in MetaSlots |-> Moved]
    /\ ctx = ScopeCtx
    /\ hist = <<>>
    /\ mark = -1
    /\ root = [x \in Holders |-> 0]
    /\ orig = <<>>
    /\ wire = Nothing
    /\ out = Nothing

Live(s) == meta[s] # Moved

\* let m = InstanceMetadata::new(); let t = InstanceMetadata::default();
Create ==
    /\ ~Live("m") /\ ~Live("t")
    /\ LET a == new(heap)
           b == default(a.heap)
       IN /\ meta' = [meta EXCEPT !["m"] = a.value, !["t"] = b.value]
          /\ heap' = b.heap
    /\ hist' = <<>>
    /\ UNCHANGED <<ctx, mark, root, orig, wire, out>>

\* m = m.ignore_unknown_instances(flag), and the same of t
StepIgnoreUnknownInstances(flag) ==
    /\ Live("m") /\ Live("t") /\ Len(hist) < MaxSteps
    /\ meta' = [meta EXCEPT !["m"] = ignore_unknown_instances(@, flag),
                            !["t"] = ignore_unknown_instances(@, flag)]
    /\ hist' = Append(hist, [op |-> "ignore_unknown_instances", flag |-> flag])
    /\ UNCHANGED <<heap, ctx, mark, root, orig, wire, out>>

\* m = m.instigating_source(arg), and the same of t
StepInstigatingSource(arg) ==
    /\ Live("m") /\ Live("t") /\ Len(hist) < MaxSteps
    /\ meta' = [meta EXCEPT !["m"] = instigating_source(@, arg),
                            !["t"] = instigating_source(@, arg)]
    /\ hist' = Append(hist, [op |-> "instigating_source", source |-> arg])
    /\ UNCHANGED <<heap, ctx, mark, root, orig, wire, out>>

\* m = m.relevant_paths(input), and the same of t
StepRelevantPaths(input) ==
    /\ Live("m") /\ Live("t") /\ Len(hist) < MaxSteps
    /\ meta' = [meta EXCEPT !["m"] = relevant_paths(@, input),
                            !["t"] = relevant_paths(@, input)]
    /\ hist' = Append(hist, [op |-> "relevant_paths", input |-> input])
    /\ UNCHANGED <<heap, ctx, mark, root, orig, wire, out>>

\* m = m.context(&c); t = t.context(&d), d a context of the same rules
StepContext(c, d) ==
    /\ Live("m") /\ Live("t") /\ Len(hist) < MaxSteps
    /\ InstanceContextEq(ctx[c], ctx[d], heap)
    /\ LET a == context(meta["m"], ctx[c], heap)
           b == context(meta["t"], ctx[d], a.heap)
       IN /\ meta' = [meta EXCEPT !["m"] = a.value, !["t"] = b.value]
          /\ heap' = b.heap
    /\ hist' = Append(hist, [op |-> "context", context |-> c])
    /\ UNCHANGED <<ctx, mark, root, orig, wire, out>>

\* let m0 = m.clone();
Snapshot ==
    /\ Live("m") /\ ~Live("m0")
    /\ LET cl == InstanceMetadataClone(meta["m"], heap)
       IN /\ meta' = [meta EXCEPT !["m0"] = cl.value]
          /\ heap' = cl.heap
    /\ mark' = Len(hist)
    /\ UNCHANGED <<ctx, hist, root, orig, wire, out>>

\* drop(m0)
DropSnapshot ==
    /\ Live("m0")
    /\ heap' = InstanceMetadataDrop(meta["m0"], heap)
    /\ meta' = [meta EXCEPT !["m0"] = Moved]
    /\ mark' = -1
    /\ UNCHANGED <<ctx, hist, root, orig, wire, out>>

Next ==
    \/ Create
    \/ \E flag \in FlagArgs : StepIgnoreUnknownInstances(flag)
    \/ \E arg \in SourceArgs : StepInstigatingSource(arg)
    \/ \E input \in PathsArgs : StepRelevantPaths(input)
    \/ \E c \in CtxSlots, d \in CtxSlots : StepContext(c, d)
    \/ Snapshot
    \/ DropSnapshot

Spec == Init /\ [][Next]_vars

----------------------------------------------------------------------------
\* The sharing specification: holders (context bindings and metadata
\* bindings) create, clone, drop and replace contexts in any interleaving.
\* root and orig record where each holder's context came from: root[x] is
\* the cell of the context x was created with or copied from, orig[a] the
\* rules cell a was allocated with.

\* the metadata values that take part: a value and its copy
ShareMeta == {"m", "m0"}

InitShare ==
    /\ heap = <<>>
    /\ meta = [s \in MetaSlots |-> Moved]
    /\ ctx = [c \in CtxSlots |-> Moved]
    /\ hist = <<>>
    /\ mark = -1
    /\ root = [x \in Holders |-> 0]
    /\ orig = <<>>
    /\ wire = Nothing
    /\ out = Nothing

\* let c = InstanceContext::default();
CtxDefault(c) ==
    /\ ctx[c] = Moved /\ Len(heap) < MaxArcs
    /\ LET r == InstanceContextDefault(heap)
       IN /\ ctx' = [ctx EXCEPT ![c] = r.value]
          /\ heap' = r.heap
    /\ root' = [root EXCEPT ![c] = Len(heap) + 1]
    /\ orig' = Append(orig, <<>>)
    /\ UNCHANGED <<meta, hist, mark, wire, out>>

\* let d = c.clone();
CtxClone(c, d) ==
    /\ ctx[c] # Moved /\ ctx[d] = Moved
    /\ LET r == InstanceContextClone(ctx[c], heap)
       IN /\ ctx' = [ctx EXCEPT ![d] = r.value]
          /\ heap' = r.heap
    /\ root' = [root EXCEPT ![d] = root[c]]
    /\ UNCHANGED <<meta, hist, mark, orig, wire, out>>

\* drop(c)
CtxDrop(c) ==
    /\ ctx[c] # Moved
    /\ heap' = InstanceContextDrop(ctx[c], heap)
    /\ ctx' = [ctx EXCEPT ![c] = Moved]
    /\ root' = [root EXCEPT ![c] = 0]
    /\ UNCHANGED <<meta, hist, mark, orig, wire, out>>

\* a nested scope adds a rule: c is rebound to a context derived from the
\* one it held, built in storage of its own; the one it held is dropped
Derive(c, h, glob) ==
    LET rules == Append(Deref(h, c.ignore_paths), glob)
    IN [value |-> [ignore_paths |-> Len(h) + 1],
        heap |-> InstanceContextDrop(c, ArcNew(h, rules))]

CtxDerive(c, glob) ==
    /\ ctx[c] # Moved /\ Len(heap) < MaxArcs
    /\ LET r == Derive(ctx[c], heap, glob)
       IN /\ ctx' = [ctx EXCEPT ![c] = r.value]
          /\ heap' = r.heap
    /\ root' = [root EXCEPT ![c] = Len(heap) + 1]
    /\ orig' = Append(orig, Append(Deref(heap, ctx[c].ignore_paths), glob))
    /\ UNCHANGED <<meta, hist, mark, wire, out>>

\* let s = InstanceMetadata::new();
MetaNew(s) ==
    /\ meta[s] = Moved /\ Len(heap) < MaxArcs
    /\ LET r == new(heap)
       IN /\ meta' = [meta EXCEPT ![s] = r.value]
          /\ heap' = r.heap
    /\ root' = [root EXCEPT ![s] = Len(heap) + 1]
    /\ orig' = Append(orig, <<>>)
    /\ UNCHANGED <<ctx, hist, mark, wire, out>>

\* s = s.context(&c);
MetaContext(s, c) ==
    /\ meta[s] # Moved /\ ctx[c] # Moved
    /\ LET r == context(meta[s], ctx[c], heap)
       IN /\ meta' = [meta EXCEPT ![s] = r.value]
          /\ heap' = r.heap
    /\ root' = [root EXCEPT ![s] = root[c]]
    /\ UNCHANGED <<ctx, hist, mark, orig, wire, out>>

\* let t = s.clone();
MetaClone(s, t) ==
    /\ meta[s] # Moved /\ meta[t] = Moved
    /\ LET r == InstanceMetadataClone(meta[s], heap)
       IN /\ meta' = [meta EXCEPT ![t] = r.value]
          /\ heap' = r.heap
    /\ root' = [root EXCEPT ![t] = root[s]]
    /\ UNCHANGED <<ctx, hist, mark, orig, wire, out>>

\* drop(s)
MetaDrop(s) ==
    /\ meta[s] # Moved
    /\ heap' = InstanceMetadataDrop(meta[s], heap)
    /\ meta' = [meta EXCEPT ![s] = Moved]
    /\ root' = [root EXCEPT ![s] = 0]
    /\ UNCHANGED <<ctx, hist, mark, orig, wire, out>>

NextShare ==
    \/ \E c \in CtxSlots : CtxDefault(c)
    \/ \E c \in CtxSlots, d \in CtxSlots : CtxClone(c, d)
    \/ \E c \in CtxSlots : CtxDrop(c)
    \/ \E c \in CtxSlots, glob \in Globs : CtxDerive(c, glob)
    \/ \E s \in ShareMeta : MetaNew(s)
    \/ \E s \in ShareMeta, c \in CtxSlots : MetaContext(s, c)
    \/ \E s \in ShareMeta, t \in ShareMeta : MetaClone(s, t)
    \/ \E s \in ShareMeta : MetaDrop(s)

SpecShare == InitShare /\ [][NextShare]_vars

----------------------------------------------------------------------------
\* Serialization (serde's data model: a struct is a map from the names of
\* the fields written to their values) and Debug rendering.

Null == [tag |-> "Null"]

\* path_serializer::serialize_absolute: the path as a string with every
\* platform separator written as "/"
SerializeAbsolute(path) ==
    [i \in 1..Len(path) |-> IF path[i] = "\\" THEN "/" ELSE path[i]]

\* path_serializer::serialize_vec_absolute
SerializeVecAbsolute(paths) ==
    [i \in 1..Len(paths) |-> SerializeAbsolute(paths[i])]

\* Deserialize for PathBuf: the path the string spells
DeserializePathBuf(str) == str

\* Serialize and Deserialize of crate::project::ProjectNode
SerializeProjectNode(node) == [ClassName |-> node.class_name]

DeserializeProjectNode(w) == [class_name |-> w.ClassName]

\* derive(Serialize) for InstigatingSource: externally tagged
SerializeInstigatingSource(src) ==
    IF src.tag = "Path"
    THEN [variant |-> "Path", content |-> SerializeAbsolute(src.path)]
    ELSE [variant |-> "ProjectNode",
          content |-> <<src.name, SerializeProjectNode(src.node)>>]

\* derive(Deserialize) for InstigatingSource
DeserializeInstigatingSource(w) ==
    IF w.variant = "Path"
    THEN Path(DeserializePathBuf(w.content))
    ELSE ProjectNode(w.content[1], DeserializeProjectNode(w.content[2]))

\* derive(Serialize) for IgnoreGlob; serde_glob writes the pattern's text
SerializeIgnoreGlob(g) ==
    [base_path |-> SerializeAbsolute(g.base_path), glob |-> g.glob]

\* derive(Deserialize) for IgnoreGlob
DeserializeIgnoreGlob(w) ==
    [base_path |-> DeserializePathBuf(w.base_path), glob |-> w.glob]

\* derive(Serialize) for InstanceContext: an Arc is written as its content
SerializeInstanceContext(c, h) ==
    LET rules == Deref(h, c.ignore_paths)
    IN [ignore_paths |-> [i \in 1..Len(rules) |-> SerializeIgnoreGlob(rules[i])]]

\* derive(Deserialize) for InstanceContext: the rules read go into an Arc
\* of their own
DeserializeInstanceContext(w, h) ==
    LET rules == [i \in 1..Len(w.ignore_paths) |->
                     DeserializeIgnoreGlob(w.ignore_paths[i])]
    IN [value |-> [ignore_paths |-> Len(h) + 1], heap |-> ArcNew(h, rules)]

\* a serializer without skip_serializing_if: an absent source is written
\* as a null
SerializeInstanceMetadataNull(m, h) ==
    [ignore_unknown_instances |-> m.ignore_unknown_instances,
     instigating_source |->
        IF m.instigating_source = None THEN Null
        ELSE SerializeInstigatingSource(m.instigating_source.value),
     relevant_paths |-> SerializeVecAbsolute(m.relevant_paths),
     context |-> SerializeInstanceContext(m.context, h)]

\* derive(Serialize) for InstanceMetadata: instigating_source is skipped
\* when Option::is_none
SerializeInstanceMetadata(m, h) ==
    LET rest == [ignore_unknown_instances |-> m.ignore_unknown_instances,
                 relevant_paths |-> SerializeVecAbsolute(m.relevant_paths),
                 context |-> SerializeInstanceContext(m.context, h)]
    IN IF m.instigating_source = None THEN rest
       ELSE rest @@ [instigating_source |->
                        SerializeInstigatingSource(m.instigating_source.value)]

\* derive(Deserialize) for InstanceMetadata: an Option field that is
\* missing or null reads as None
DeserializeInstanceMetadata(w, h) ==
    LET c == DeserializeInstanceContext(w.context, h)
    IN [value |->
          [ignore_unknown_instances |-> w.ignore_unknown_instances,
           instigating_source |->
              IF "instigating_source" \notin DOMAIN w THEN None
              ELSE IF w.instigating_source = Null THEN None
              ELSE Some(DeserializeInstigatingSource(w.instigating_source)),
           relevant_paths |-> [i \in 1..Len(w.relevant_paths) |->
                                  DeserializePathBuf(w.relevant_paths[i])],
           context |-> c.value],
        heap |-> c.heap]

\* a piece of rendered text: written by the formatter itself, or the
\* rendering of an argument
Lit(text) == [i \in 1..Len(text) |-> [by |-> "fmt", tok |-> text[i]]]
Arg(text) == [i \in 1..Len(text) |-> [by |-> "arg", tok |-> text[i]]]

\* derive(Debug) of crate::project::ProjectNode
ProjectNodeDebug(node) == <<"ProjectNode", " { ", node.class_name, " }">>

\* impl fmt::Debug for InstigatingSource
InstigatingSourceFmt(src) ==
    IF src.tag = "Path"
    THEN Lit(<<"Path", "(">>) \o Arg(src.path) \o Lit(<<")">>)
    ELSE Lit(<<"ProjectNode", "(">>) \o Arg(<<src.name>>) \o Lit(<<": ">>)
           \o Arg(ProjectNodeDebug(src.node))

PathTokens == {"/", "\\", "a", "b", "("}

Texts(n) == UNION {[1..k -> PathTokens] : k \in 0..n}

InputSources ==
    {None} \cup {Some(Path(p)) : p \in Texts(MaxPathLen)}
           \cup {Some(ProjectNode(name, node)) :
                    name \in {"Part", "a(b"}, node \in ProjectNodes}

InitFmt ==
    /\ \E rules \in {<<>>, <<G1>>} : heap = <<[data |-> rules, strong |-> 1]>>
    /\ \E flag \in BOOLEAN, src \in InputSources,
          paths \in {<<>>, <<FooLua, <<"\\", "a">>>>} :
         meta = [s \in MetaSlots |->
                   IF s = "m"
                   THEN [ignore_unknown_instances |-> flag,
                         instigating_source |-> src,
                         relevant_paths |-> paths,
                         context |-> [ignore_paths |-> 1]]
                   ELSE Moved]
    /\ ctx = [c \in CtxSlots |-> Moved]
    /\ hist = <<>>
    /\ mark = -1
    /\ root = [x \in Holders |-> 0]
    /\ orig = <<>>
    /\ wire = Nothing
    /\ out = Nothing

\* wire = serialize(&m)
Serialize ==
    /\ wire = Nothing
    /\ wire' = SerializeInstanceMetadata(meta["m"], heap)
    /\ UNCHANGED <<heap, meta, ctx, hist, mark, root, orig, out>>

\* let t: InstanceMetadata = deserialize(wire)
Deserialize ==
    /\ wire # Nothing /\ meta["t"] = Moved
    /\ LET r == DeserializeInstanceMetadata(wire, heap)
       IN /\ meta' = [meta EXCEPT !["t"] = r.value]
          /\ heap' = r.heap
    /\ UNCHANGED <<ctx, hist, mark, root, orig, wire, out>>

\* out = format!("{:?}", source)
DebugFmt ==
    /\ out = Nothing /\ meta["m"].instigating_source # None
    /\ out' = InstigatingSourceFmt(meta["m"].instigating_source.value)
    /\ UNCHANGED <<heap, meta, ctx, hist, mark, root, orig, wire>>

NextFmt ==
    \/ Serialize
    \/ Deserialize
    \/ DebugFmt

SpecFmt == InitFmt /\ [][NextFmt]_vars

----------------------------------------------------------------------------
\* What the builder calls recorded in hist say of a value.

\* the source a call's argument stands for: a bare path p stands for Path(p)
SuppliedSource(arg) ==
    IF arg.via = "InstigatingSource" THEN arg.source
    ELSE [tag |-> "Path", path |-> arg.path]

\* the index of the last call of hist after position from that names field
\* op, or 0
LastCall(op, from) ==
    LET S == {i \in (from + 1)..Len(hist) : hist[i].op = op}
    IN IF S = {} THEN 0 ELSE CHOOSE i \in S : \A j \in S : j <= i

Rules(c) == Deref(heap, c.ignore_paths)

\* C1: every builder call sets its own field to the supplied argument (a
\* bare path p becomes Some(Path(p))) and leaves the other three fields as
\* they were, and a copy taken before the call keeps its value.
C1_StepSetsOwnFieldOnly ==
    [][Len(hist') = Len(hist) + 1 =>
        LET st == hist'[Len(hist')]
            a == meta["m"]
            b == meta'["m"]
        IN /\ IF st.op = "ignore_unknown_instances"
              THEN b.ignore_unknown_instances = st.flag
              ELSE b.ignore_unknown_instances = a.ignore_unknown_instances
           /\ IF st.op = "instigating_source"
              THEN b.instigating_source
                     = [tag |-> "Some", value |-> SuppliedSource(st.source)]
              ELSE b.instigating_source = a.instigating_source
           /\ IF st.op = "relevant_paths"
              THEN b.relevant_paths = st.input
              ELSE b.relevant_paths = a.relevant_paths
           /\ IF st.op = "context"
              THEN /\ b.context = ctx[st.context]
                   /\ Deref(heap', b.context.ignore_paths) = Rules(ctx[st.context])
              ELSE /\ b.context = a.context
                   /\ Deref(heap', b.context.ignore_paths) = Rules(a.context)
           /\ meta["m0"] # Moved =>
                /\ meta'["m0"] = meta["m0"]
                /\ Deref(heap', meta'["m0"].context.ignore_paths)
                     = Rules(meta["m0"].context)]_vars

\* the scenario of the specification: m0 the default, m1 built from it
C1_Witness ==
    /\ mark = 0 /\ Len(hist) = 2
    /\ hist[1].op = "instigating_source" /\ hist[2].op = "relevant_paths"
    /\ meta["m"].instigating_source = Some(Path(FooLua))
    /\ meta["m"].relevant_paths = <<FooLua, FooMeta>>
    /\ meta["m0"].instigating_source = None
    /\ meta["m0"].relevant_paths = <<>>
    /\ meta["m0"].ignore_unknown_instances = FALSE
    /\ Rules(meta["m0"].context) = <<>>

\* C2: new() and default() yield the same value (flag false, no source, no
\* paths, a default context); a default context has no rules; two defaults
\* created independently are equal and do not share storage.
C2_DefaultsAgree ==
    (Live("m") /\ Live("t") /\ hist = <<>>) =>
        /\ \A s \in {"m", "t"} :
             /\ meta[s].ignore_unknown_instances = FALSE
             /\ meta[s].instigating_source = None
             /\ meta[s].relevant_paths = <<>>
             /\ Rules(meta[s].context) = <<>>
             /\ heap[meta[s].context.ignore_paths].strong >= 1
        /\ InstanceMetadataEq(meta["m"], meta["t"], heap)
        /\ InstanceContextEq(meta["m"].context, meta["t"].context, heap)
        /\ meta["m"].context.ignore_paths # meta["t"].context.ignore_paths

C2_Witness ==
    /\ Live("m") /\ Live("t") /\ hist = <<>>
    /\ meta["m"].context.ignore_paths # meta["t"].context.ignore_paths

\* the fields in which two values differ, contexts compared by their rules
FieldsDiffering(a, b) ==
    {f \in {"ignore_unknown_instances", "instigating_source",
            "relevant_paths", "context"} :
        CASE f = "ignore_unknown_instances" ->
               a.ignore_unknown_instances # b.ignore_unknown_instances
          [] f = "instigating_source" ->
               a.instigating_source # b.instigating_source
          [] f = "relevant_paths" ->
               \/ Len(a.relevant_paths) # Len(b.relevant_paths)
               \/ \E i \in DOMAIN a.relevant_paths :
                    a.relevant_paths[i] # b.relevant_paths[i]
          [] f = "context" -> Rules(a.context) # Rules(b.context)}

LiveSlots == {s \in MetaSlots : Live(s)}

\* C3: two values built from the default by the same builder calls are
\* equal, also when their contexts are separate storage of the same rules;
\* two values that differ in exactly one field are unequal.
C3_StructuralEquality ==
    /\ (Live("m") /\ Live("t")) => InstanceMetadataEq(meta["m"], meta["t"], heap)
    /\ \A x \in LiveSlots, y \in LiveSlots :
         Cardinality(FieldsDiffering(meta[x], meta[y])) = 1 =>
            ~InstanceMetadataEq(meta[x], meta[y], heap)

\* m and t hold separate storage of equal rules; m0 differs from m in the
\* order of the relevant paths alone
C3_Witness ==
    /\ LiveSlots = MetaSlots
    /\ meta["m"].context.ignore_paths # meta["t"].context.ignore_paths
    /\ Rules(meta["m"].context) = <<G1>>
    /\ meta["m"].relevant_paths = <<FooLua, FooMeta>>
    /\ meta["m0"].relevant_paths = <<FooMeta, FooLua>>
    /\ FieldsDiffering(meta["m"], meta["m0"]) = {"relevant_paths"}

\* C4: relevant_paths(input) stores the input as it is: the same length,
\* the i-th element the i-th element of the input, repeated paths kept.
C4_PathsKeptInOrder ==
    (Live("m") /\ Len(hist) > 0 /\ hist[Len(hist)].op = "relevant_paths") =>
        LET input == hist[Len(hist)].input
        IN /\ Len(meta["m"].relevant_paths) = Len(input)
           /\ \A i \in 1..Len(input) : meta["m"].relevant_paths[i] = input[i]

C4_Witness ==
    /\ Live("m") /\ Len(hist) > 1 /\ hist[Len(hist)].op = "relevant_paths"
    /\ hist[Len(hist)].input = <<FooLua, FooLua>>
    /\ Len(meta["m"].relevant_paths) = 2
    /\ meta["m"].relevant_paths[1] = meta["m"].relevant_paths[2]

\* C9: a value built from new() has no instigating source exactly when no
\* instigating_source call was applied; otherwise it holds the argument of
\* the most recent such call; a source once set is never cleared by a
\* further call.
C9_SourceNeverCleared ==
    /\ [](Live("m") =>
            LET i == LastCall("instigating_source", 0)
            IN /\ (meta["m"].instigating_source = None) <=> (i = 0)
               /\ i # 0 => meta["m"].instigating_source
                             = [tag |-> "Some",
                                value |-> SuppliedSource(hist[i].source)])
    /\ [][(Live("m") /\ meta["m"].instigating_source # None)
            => meta'["m"].instigating_source # None]_vars

\* a source was set, and calls naming the other fields followed
C9_Witness ==
    /\ Live("m") /\ Len(hist) = 3
    /\ hist[1].op = "instigating_source"
    /\ hist[2].op = "ignore_unknown_instances"
    /\ hist[3].op = "context"
    /\ meta["m"].instigating_source = Some(Path(FooLua))

\* C10: after any sequence of builder calls applied to a value (new(), or
\* the value copied to m0), each field holds the argument of the last call
\* naming it, or the starting value's field if no call names it.
LastWriteWins(from, start, startRules) ==
    LET f == LastCall("ignore_unknown_instances", from)
        s == LastCall("instigating_source", from)
        p == LastCall("relevant_paths", from)
        c == LastCall("context", from)
        m == meta["m"]
    IN /\ m.ignore_unknown_instances
            = IF f = 0 THEN start.ignore_unknown_instances ELSE hist[f].flag
       /\ m.instigating_source
            = IF s = 0 THEN start.instigating_source
              ELSE [tag |-> "Some", value |-> SuppliedSource(hist[s].source)]
       /\ m.relevant_paths
            = IF p = 0 THEN start.relevant_paths ELSE hist[p].input
       /\ IF c = 0 THEN Rules(m.context) = startRules
          ELSE /\ m.context = ctx[hist[c].context]
               /\ Rules(m.context) = Rules(ctx[hist[c].context])

C10_LastWriteWins ==
    /\ Live("m") =>
         LastWriteWins(0, [ignore_unknown_instances |-> FALSE,
                           instigating_source |-> None,
                           relevant_paths |-> <<>>], <<>>)
    /\ (Live("m") /\ Live("m0")) =>
         LastWriteWins(mark, meta["m0"], Rules(meta["m0"].context))

\* a second relevant_paths call replaced the paths of the first, with a call
\* naming another field between them, starting from a copied value
C10_Witness ==
    /\ Live("m0") /\ mark = 0 /\ Len(hist) = 3
    /\ hist[1].op = "relevant_paths" /\ hist[1].input = <<FooLua, FooMeta>>
    /\ hist[2].op = "ignore_unknown_instances"
    /\ hist[3].op = "relevant_paths" /\ hist[3].input = <<FooLua, FooLua>>
    /\ meta["m"].relevant_paths = <<FooLua, FooLua>>

----------------------------------------------------------------------------
\* What the holders of the sharing specification observe.

HolderLive(x) == IF x \in CtxSlots THEN ctx[x] # Moved ELSE meta[x] # Moved

HolderCtx(x) == IF x \in CtxSlots THEN ctx[x] ELSE meta[x].context

LiveHolders == {x \in Holders : HolderLive(x)}

\* C5: in every interleaving of clones, reads, drops and rebindings to
\* derived contexts, each holder reads exactly the rules its context was
\* created with (a clone reads what its original reads), and no step
\* changes what a holder that keeps its context reads.
C5_HoldersUnaffected ==
    /\ [](\A x \in LiveHolders : Rules(HolderCtx(x)) = orig[root[x]])
    /\ [][\A x \in Holders :
            (/\ HolderLive(x)
             /\ IF x \in CtxSlots THEN ctx'[x] = ctx[x] ELSE meta'[x] = meta[x])
            => Deref(heap', HolderCtx(x).ignore_paths) = Rules(HolderCtx(x))]_vars

\* c1 was cloned from c0 when c0 held the rules G1; c0 was then rebound to
\* a derived context, and c1 still reads G1 alone
C5_Witness ==
    /\ ctx["c0"] # Moved /\ ctx["c1"] # Moved
    /\ Rules(ctx["c0"]) = <<G1, G2>>
    /\ Rules(ctx["c1"]) = <<G1>>
    /\ heap[ctx["c1"].ignore_paths].strong = 1

\* C6: context clones, metadata clones and context(&c) calls never copy
\* the rules: every holder refers to the very cell of the context it
\* originates from, each cell's count is the number of its live holders,
\* and no cell exists but those default(), new() and a derivation allocated.
C6_StorageShared ==
    /\ \A x \in LiveHolders : HolderCtx(x).ignore_paths = root[x]
    /\ \A a \in 1..Len(heap) :
         heap[a].strong
           = Cardinality({x \in LiveHolders : HolderCtx(x).ignore_paths = a})
    /\ Len(heap) = Len(orig)

\* one cell holding a rule, shared by two contexts and two metadata values
C6_Witness ==
    /\ {"c0", "c1", "m", "m0"} \subseteq LiveHolders
    /\ \A x \in {"c1", "m", "m0"} :
         HolderCtx(x).ignore_paths = ctx["c0"].ignore_paths
    /\ Rules(ctx["c0"]) = <<G1>>
    /\ heap[ctx["c0"].ignore_paths].strong = 4
    /\ Len(heap) = 3

----------------------------------------------------------------------------
\* What serialization and rendering produce.

Absolute(path) == Len(path) > 0 /\ path[1] = "/"

NoBackslash(path) == \A i \in 1..Len(path) : path[i] # "\\"

\* the source of m, serialized and read back, is the source of m
SourceRoundTrips ==
    meta["t"].instigating_source = meta["m"].instigating_source

Plain(pieces) == [i \in 1..Len(pieces) |-> pieces[i].tok]

Written(pieces, tok) ==
    Cardinality({i \in 1..Len(pieces) :
                    pieces[i].by = "fmt" /\ pieces[i].tok = tok})

\* C8: the rendering of Path(p) is "Path(" p ")", that of
\* ProjectNode(name, node) is "ProjectNode(" name ": " node's rendering ")",
\* and the formatter closes every parenthesis it opens.
C8_BalancedRendering ==
    out # Nothing =>
        LET src == meta["m"].instigating_source.value
        IN /\ Plain(out)
                = IF src.tag = "Path"
                  THEN <<"Path", "(">> \o src.path \o <<")">>
                  ELSE <<"ProjectNode", "(", src.name, ": ">>
                         \o ProjectNodeDebug(src.node) \o <<")">>
           /\ Written(out, "(") = Written(out, ")")

====
